---- MODULE Spec2Model ----
(***************************************************************************)
(* The brute-force login-attempt guard of                                  *)
(* pkg/services/loginattempt/loginattemptimpl/login_attempt.go:            *)
(* Service.Add, Service.Validate, Service.Run and Service.cleanup, run by  *)
(* cooperating process instances over one attempt store and one server     *)
(* lock.  Time is counted in whole minutes.                                *)
(***************************************************************************)
EXTENDS Integers, FiniteSets, Sequences, TLC

\* ---------------------------------------------------------------- constants
maxInvalidLoginAttempts == 5
loginAttemptsWindow == 5
TickInterval == 10
RetentionAge == 10

\* ------------------------------------------------------------------- bounds
MaxTime == 6
MaxAttempts == 5
MaxClockSteps == 3
MaxSweepAttempts == 2
ClockStep == loginAttemptsWindow

Instances == {"i1", "i2"}
Users == {"alice", "bob"}
IPs == {"ip1", "ip2"}
None == "none"
Running == {"AwaitingTick", "AcquiringLock", "Cleaning"}

VARIABLES
    now,          \* the wall clock, in minutes
    records,      \* rows of the attempt store: [id, username, ipAddress, created]
    nextId,       \* the store's next row id
    disabled,     \* disabled[i]: cfg.DisableBruteForceLoginProtection of instance i
    pc,           \* pc[i]: where instance i's Run is
    cancelled,    \* cancelled[i]: ctx of instance i's Run is done
    nextTick,     \* nextTick[i]: when instance i's ticker fires next
    tickPending,  \* tickPending[i]: a tick waits in ticker.C of instance i
    runRet,       \* runRet[i]: what Run of instance i returned
    lockHolder,   \* the instance executing under the server lock, or None
    cleanupLog,   \* cleanupLog[i]: what the last cleanup of instance i logged
    ret,          \* the return of the Add or Validate call that just completed
    refused,      \* history: the usernames Validate has found over the ceiling
    carried       \* history: the usernames over the ceiling when protection was
                  \* enabled again

vars == <<now, records, nextId, disabled, pc, cancelled, nextTick, tickPending,
          runRet, lockHolder, cleanupLog, ret, refused, carried>>

storeVars == <<records, nextId>>
runVars == <<pc, cancelled, nextTick, tickPending, runRet, lockHolder, cleanupLog>>

\* ret.calls: the store methods the call invoked, in order; ret.storeErr: the
\* error the store returned to it; ret.err, ret.allowed: what it returned.
NoRet == [op |-> "none", instance |-> None, username |-> "", ipAddress |-> "",
          allowed |-> FALSE, err |-> "nil", calls |-> <<>>, storeErr |-> "nil"]

\* ------------------------------------------------------------ attempt store
\* CreateLoginAttempt: one new row for the command, stamped with the clock.
CreateLoginAttempt(rs, id, username, ipAddress, t) ==
    rs \cup {[id |-> id, username |-> username, ipAddress |-> ipAddress, created |-> t]}

\* GetUserLoginAttemptCount: the rows of the user newer than query.Since.
GetUserLoginAttemptCount(rs, username, since) ==
    Cardinality({r \in rs : r.username = username /\ r.created > since})

\* DeleteOldLoginAttempts: removes the rows older than cmd.OlderThan.
DeleteOldLoginAttempts(rs, olderThan) ==
    {r \in rs : ~(r.created < olderThan)}

\* ------------------------------------------------------------------ service
SinceIncludingBoundary(t) == t - loginAttemptsWindow - 1

SinceProcessStart(t) == 0 - loginAttemptsWindow

\* Validate: Since of the count query.
Since(t) == t - loginAttemptsWindow

AllowedAtCeiling(count) == IF count > maxInvalidLoginAttempts THEN FALSE ELSE TRUE

\* Validate: the verdict on the count the store returned.
Allowed(count) == IF count >= maxInvalidLoginAttempts THEN FALSE ELSE TRUE

OlderThanNow(t) == t

OlderThanDay(t) == t - 1440

OlderThanWindow(t) == t - loginAttemptsWindow

\* cleanup: OlderThan of the delete command.
OlderThan(t) == t - RetentionAge

Init ==
    /\ now = 0
    /\ records = {}
    /\ nextId = 1
    /\ disabled \in [Instances -> BOOLEAN]
    /\ pc = [i \in Instances |-> "Idle"]
    /\ cancelled = [i \in Instances |-> FALSE]
    /\ nextTick = [i \in Instances |-> 0]
    /\ tickPending = [i \in Instances |-> FALSE]
    /\ runRet = [i \in Instances |-> "none"]
    /\ lockHolder = None
    /\ cleanupLog = [i \in Instances |-> "none"]
    /\ ret = NoRet
    /\ refused = {}
    /\ carried = {}

\* The return of a call of op on instance i for username.
Return(op, i, username) == [NoRet EXCEPT !.op = op, !.instance = i, !.username = username]

AddIgnoringConfig(i, username, IPAddress, storeErr) ==
    /\ IF storeErr = "nil"
         THEN /\ records' = CreateLoginAttempt(records, nextId, username, IPAddress, now)
              /\ nextId' = nextId + 1
         ELSE UNCHANGED storeVars
    /\ ret' = [Return("Add", i, username) EXCEPT
                  !.ipAddress = IPAddress,
                  !.calls = <<"CreateLoginAttempt">>, !.storeErr = storeErr, !.err = storeErr]
    /\ UNCHANGED <<now, disabled, runVars, refused, carried>>

AddPurgingWhenDisabled(i, username, IPAddress, storeErr) ==
    /\ IF disabled[i]
         THEN /\ ret' = [Return("Add", i, username) EXCEPT !.ipAddress = IPAddress]
              /\ records' = {r \in records : r.username # username}
              /\ UNCHANGED nextId
         ELSE /\ IF storeErr = "nil"
                   THEN /\ records' = CreateLoginAttempt(records, nextId, username, IPAddress, now)
                        /\ nextId' = nextId + 1
                   ELSE UNCHANGED storeVars
              /\ ret' = [Return("Add", i, username) EXCEPT
                            !.ipAddress = IPAddress,
                            !.calls = <<"CreateLoginAttempt">>,
                            !.storeErr = storeErr, !.err = storeErr]
    /\ UNCHANGED <<now, disabled, runVars, refused, carried>>

AddCheckingCount(i, username, IPAddress, storeErr) ==
    /\ IF disabled[i]
         THEN /\ ret' = [Return("Add", i, username) EXCEPT !.ipAddress = IPAddress]
              /\ UNCHANGED storeVars
         ELSE /\ IF storeErr = "nil" /\
                     GetUserLoginAttemptCount(records, username, Since(now)) <
                         maxInvalidLoginAttempts
                   THEN /\ records' = CreateLoginAttempt(records, nextId, username, IPAddress, now)
                        /\ nextId' = nextId + 1
                   ELSE UNCHANGED storeVars
              /\ ret' = [Return("Add", i, username) EXCEPT
                            !.ipAddress = IPAddress,
                            !.calls = <<"CreateLoginAttempt">>,
                            !.storeErr = storeErr, !.err = storeErr]
    /\ UNCHANGED <<now, disabled, runVars, refused, carried>>

AddRefreshingLast(i, username, IPAddress, storeErr) ==
    /\ IF disabled[i]
         THEN /\ ret' = [Return("Add", i, username) EXCEPT !.ipAddress = IPAddress]
              /\ UNCHANGED storeVars
         ELSE /\ IF storeErr = "nil"
                   THEN LET same == {r \in records :
                                       r.username = username /\ r.ipAddress = IPAddress}
                        IN  IF same = {}
                              THEN /\ records' = CreateLoginAttempt(records, nextId,
                                                     username, IPAddress, now)
                                   /\ nextId' = nextId + 1
                              ELSE /\ records' = (records \ same) \cup
                                           {[r EXCEPT !.created = now] : r \in same}
                                   /\ UNCHANGED nextId
                   ELSE UNCHANGED storeVars
              /\ ret' = [Return("Add", i, username) EXCEPT
                            !.ipAddress = IPAddress,
                            !.calls = <<"CreateLoginAttempt">>,
                            !.storeErr = storeErr, !.err = storeErr]
    /\ UNCHANGED <<now, disabled, runVars, refused, carried>>

AddWaitingForLock(i, username, IPAddress, storeErr) ==
    /\ IF disabled[i]
         THEN /\ ret' = [Return("Add", i, username) EXCEPT !.ipAddress = IPAddress]
              /\ UNCHANGED storeVars
         ELSE /\ lockHolder = None
              /\ IF storeErr = "nil"
                   THEN /\ records' = CreateLoginAttempt(records, nextId, username, IPAddress, now)
                        /\ nextId' = nextId + 1
                   ELSE UNCHANGED storeVars
              /\ ret' = [Return("Add", i, username) EXCEPT
                            !.ipAddress = IPAddress,
                            !.calls = <<"CreateLoginAttempt">>,
                            !.storeErr = storeErr, !.err = storeErr]
    /\ UNCHANGED <<now, disabled, runVars, refused, carried>>

\* Service.Add on instance i; storeErr is what the store call returns.
Add(i, username, IPAddress, storeErr) ==
    /\ IF disabled[i]
         THEN /\ ret' = [Return("Add", i, username) EXCEPT !.ipAddress = IPAddress]
              /\ UNCHANGED storeVars
         ELSE /\ IF storeErr = "nil"
                   THEN /\ records' = CreateLoginAttempt(records, nextId, username, IPAddress, now)
                        /\ nextId' = nextId + 1
                   ELSE UNCHANGED storeVars
              /\ ret' = [Return("Add", i, username) EXCEPT
                            !.ipAddress = IPAddress,
                            !.calls = <<"CreateLoginAttempt">>,
                            !.storeErr = storeErr, !.err = storeErr]
    /\ UNCHANGED <<now, disabled, runVars, refused, carried>>

ValidateFailingOpen(i, username, storeErr) ==
    /\ IF disabled[i] \/ storeErr # "nil"
         THEN /\ ret' = [Return("Validate", i, username) EXCEPT
                            !.calls = IF disabled[i] THEN <<>> ELSE <<"GetUserLoginAttemptCount">>,
                            !.storeErr = IF disabled[i] THEN "nil" ELSE storeErr,
                            !.allowed = TRUE]
              /\ UNCHANGED refused
         ELSE LET count == GetUserLoginAttemptCount(records, username, Since(now))
              IN  /\ ret' = [Return("Validate", i, username) EXCEPT
                                !.calls = <<"GetUserLoginAttemptCount">>,
                                !.allowed = Allowed(count)]
                  /\ refused' = IF Allowed(count) THEN refused ELSE refused \cup {username}
    /\ UNCHANGED <<now, storeVars, disabled, runVars, carried>>

ValidateCountingAll(i, username, storeErr) ==
    /\ IF disabled[i]
         THEN /\ ret' = [Return("Validate", i, username) EXCEPT !.allowed = TRUE]
              /\ UNCHANGED refused
         ELSE IF storeErr # "nil"
           THEN /\ ret' = [Return("Validate", i, username) EXCEPT
                              !.calls = <<"GetUserLoginAttemptCount">>,
                              !.storeErr = storeErr, !.allowed = FALSE, !.err = storeErr]
                /\ UNCHANGED refused
           ELSE LET count == Cardinality({r \in records : r.created > Since(now)})
                IN  /\ ret' = [Return("Validate", i, username) EXCEPT
                                  !.calls = <<"GetUserLoginAttemptCount">>,
                                  !.allowed = Allowed(count)]
                    /\ refused' = IF Allowed(count) THEN refused ELSE refused \cup {username}
    /\ UNCHANGED <<now, storeVars, disabled, runVars, carried>>

ValidatePruning(i, username, storeErr) ==
    /\ IF disabled[i]
         THEN /\ ret' = [Return("Validate", i, username) EXCEPT !.allowed = TRUE]
              /\ UNCHANGED <<refused, records>>
         ELSE IF storeErr # "nil"
           THEN /\ ret' = [Return("Validate", i, username) EXCEPT
                              !.calls = <<"GetUserLoginAttemptCount">>,
                              !.storeErr = storeErr, !.allowed = FALSE, !.err = storeErr]
                /\ UNCHANGED <<refused, records>>
           ELSE LET count == GetUserLoginAttemptCount(records, username, Since(now))
                IN  /\ ret' = [Return("Validate", i, username) EXCEPT
                                  !.calls = <<"GetUserLoginAttemptCount">>,
                                  !.allowed = Allowed(count)]
                    /\ refused' = IF Allowed(count) THEN refused ELSE refused \cup {username}
                    /\ records' = {r \in records :
                                      r.username # username \/ r.created > Since(now)}
    /\ UNCHANGED <<now, nextId, disabled, runVars, carried>>

\* Service.Validate on instance i; storeErr is what the store call returns.
Validate(i, username, storeErr) ==
    /\ IF disabled[i]
         THEN /\ ret' = [Return("Validate", i, username) EXCEPT !.allowed = TRUE]
              /\ UNCHANGED refused
         ELSE IF storeErr # "nil"
           THEN /\ ret' = [Return("Validate", i, username) EXCEPT
                              !.calls = <<"GetUserLoginAttemptCount">>,
                              !.storeErr = storeErr, !.allowed = FALSE, !.err = storeErr]
                /\ UNCHANGED refused
           ELSE LET count == GetUserLoginAttemptCount(records, username, Since(now))
                IN  /\ ret' = [Return("Validate", i, username) EXCEPT
                                  !.calls = <<"GetUserLoginAttemptCount">>,
                                  !.allowed = Allowed(count)]
                    /\ refused' = IF Allowed(count) THEN refused ELSE refused \cup {username}
    /\ UNCHANGED <<now, storeVars, disabled, runVars, carried>>

\* The usernames with 5 or more attempts less than a window old.
OverCeiling ==
    {u \in Users : Cardinality({r \in records : r.username = u
                       /\ now - r.created < loginAttemptsWindow}) >= maxInvalidLoginAttempts}

\* The configuration of instance i is changed to b.
SetDisabled(i, b) ==
    /\ disabled[i] # b
    /\ disabled' = [disabled EXCEPT ![i] = b]
    /\ carried' = IF b THEN carried ELSE carried \cup OverCeiling
    /\ ret' = NoRet
    /\ UNCHANGED <<now, storeVars, runVars, refused>>

\* The ticker of instance i exists and is due at time t.
TickDue(i, t) == pc[i] \in Running /\ t >= nextTick[i]

\* d minutes pass.  A ticker that comes due sends its tick: to the select blocked
\* on it, or into the one-slot channel, where a second tick is dropped.
AdvanceTime(d) ==
    /\ now' = now + d
    /\ pc' = [i \in Instances |->
                IF TickDue(i, now') /\ pc[i] = "AwaitingTick" THEN "AcquiringLock" ELSE pc[i]]
    /\ tickPending' = [i \in Instances |->
                IF TickDue(i, now') /\ pc[i] # "AwaitingTick" THEN TRUE ELSE tickPending[i]]
    /\ nextTick' = [i \in Instances |->
                IF TickDue(i, now') THEN nextTick[i] + TickInterval ELSE nextTick[i]]
    /\ ret' = NoRet
    /\ UNCHANGED <<storeVars, disabled, cancelled, runRet, lockHolder, cleanupLog, refused, carried>>

\* The cases of Run's select that are ready when instance i reaches it.
Ready(i, pending, done) ==
    LET r == (IF pending THEN {"tick"} ELSE {}) \cup (IF done THEN {"done"} ELSE {})
    IN  IF r = {} THEN {"block"} ELSE r

\* Instance i reaches the select of Run's loop: a ready case is taken, one of
\* them when both are ready; it blocks when none is.
Select(i) ==
    \E c \in Ready(i, tickPending[i], cancelled[i]) :
        /\ pc' = [pc EXCEPT ![i] = CASE c = "tick" -> "AcquiringLock"
                                     [] c = "done" -> "Cancelled"
                                     [] OTHER -> "AwaitingTick"]
        /\ tickPending' = [tickPending EXCEPT ![i] = IF c = "tick" THEN FALSE ELSE @]
        /\ runRet' = [runRet EXCEPT ![i] = IF c = "done" THEN "ctx.Err" ELSE @]

RunIgnoringConfig(i) ==
    /\ pc[i] = "Idle"
    /\ nextTick' = [nextTick EXCEPT ![i] = now + TickInterval]
    /\ Select(i)
    /\ ret' = NoRet
    /\ UNCHANGED <<now, storeVars, disabled, cancelled, lockHolder, cleanupLog, refused, carried>>

\* Service.Run is started on instance i.
Run(i) ==
    /\ pc[i] = "Idle"
    /\ IF disabled[i]
         THEN /\ pc' = [pc EXCEPT ![i] = "Returned"]
              /\ runRet' = [runRet EXCEPT ![i] = "nil"]
              /\ UNCHANGED <<nextTick, tickPending>>
         ELSE /\ nextTick' = [nextTick EXCEPT ![i] = now + TickInterval]
              /\ Select(i)
    /\ ret' = NoRet
    /\ UNCHANGED <<now, storeVars, disabled, cancelled, lockHolder, cleanupLog, refused, carried>>

CancelWithFinalCleanup(i) ==
    /\ pc[i] \in Running
    /\ ~cancelled[i]
    /\ cancelled' = [cancelled EXCEPT ![i] = TRUE]
    /\ pc' = [pc EXCEPT ![i] = IF @ = "AwaitingTick" THEN "AcquiringLock" ELSE @]
    /\ ret' = NoRet
    /\ UNCHANGED <<now, storeVars, disabled, nextTick, tickPending, runRet, lockHolder,
                   cleanupLog, refused, carried>>

CancelAbortingCleanup(i) ==
    /\ pc[i] \in Running
    /\ ~cancelled[i]
    /\ cancelled' = [cancelled EXCEPT ![i] = TRUE]
    /\ pc' = [pc EXCEPT ![i] = "Cancelled"]
    /\ runRet' = [runRet EXCEPT ![i] = "ctx.Err"]
    /\ lockHolder' = IF lockHolder = i THEN None ELSE lockHolder
    /\ ret' = NoRet
    /\ UNCHANGED <<now, storeVars, disabled, nextTick, tickPending, cleanupLog, refused, carried>>

\* The context of instance i's Run is cancelled; a select blocked on it wakes
\* with the Done case.
Cancel(i) ==
    /\ pc[i] \in Running
    /\ ~cancelled[i]
    /\ cancelled' = [cancelled EXCEPT ![i] = TRUE]
    /\ IF pc[i] = "AwaitingTick"
         THEN /\ pc' = [pc EXCEPT ![i] = "Cancelled"]
              /\ runRet' = [runRet EXCEPT ![i] = "ctx.Err"]
         ELSE UNCHANGED <<pc, runRet>>
    /\ ret' = NoRet
    /\ UNCHANGED <<now, storeVars, disabled, nextTick, tickPending, lockHolder, cleanupLog, refused, carried>>

\* LockAndExecute: the lock can be taken when no instance executes under it.
LockFree(holder) == holder = None

CleanupWithoutLock(i, lockErr) ==
    /\ pc[i] = "AcquiringLock"
    /\ pc' = [pc EXCEPT ![i] = "Cleaning"]
    /\ lockHolder' = IF LockFree(lockHolder) THEN i ELSE lockHolder
    /\ ret' = NoRet
    /\ UNCHANGED <<now, storeVars, disabled, cancelled, nextTick, refused, carried, cleanupLog,
                   tickPending, runRet>>

\* Service.cleanup up to the function it hands to LockAndExecute: the call
\* fails (lockErr, logged), finds the lock held and returns without running
\* the function, or takes the lock and enters the function.
CleanupLock(i, lockErr) ==
    /\ pc[i] = "AcquiringLock"
    /\ IF lockErr # "nil"
         THEN /\ cleanupLog' = [cleanupLog EXCEPT ![i] = "lockError"]
              /\ Select(i)
              /\ UNCHANGED lockHolder
         ELSE IF ~LockFree(lockHolder)
           THEN /\ cleanupLog' = [cleanupLog EXCEPT ![i] = "notAcquired"]
                /\ Select(i)
                /\ UNCHANGED lockHolder
           ELSE /\ lockHolder' = i
                /\ pc' = [pc EXCEPT ![i] = "Cleaning"]
                /\ UNCHANGED <<cleanupLog, tickPending, runRet>>
    /\ ret' = NoRet
    /\ UNCHANGED <<now, storeVars, disabled, cancelled, nextTick, refused, carried>>

CleanupDeleteFatal(i, storeErr) ==
    /\ pc[i] = "Cleaning"
    /\ lockHolder' = None
    /\ IF storeErr = "nil"
         THEN /\ records' = DeleteOldLoginAttempts(records, OlderThan(now))
              /\ cleanupLog' = [cleanupLog EXCEPT ![i] = "deleted"]
              /\ Select(i)
         ELSE /\ cleanupLog' = [cleanupLog EXCEPT ![i] = "deleteError"]
              /\ pc' = [pc EXCEPT ![i] = "Failed"]
              /\ runRet' = [runRet EXCEPT ![i] = storeErr]
              /\ UNCHANGED <<records, tickPending>>
    /\ ret' = NoRet
    /\ UNCHANGED <<now, nextId, disabled, cancelled, nextTick, refused, carried>>

\* Service.cleanup, the function run under the lock: it deletes the old
\* attempts and logs the outcome; the lock is released and Run's loop goes on.
CleanupDelete(i, storeErr) ==
    /\ pc[i] = "Cleaning"
    /\ IF storeErr = "nil"
         THEN /\ records' = DeleteOldLoginAttempts(records, OlderThan(now))
              /\ cleanupLog' = [cleanupLog EXCEPT ![i] = "deleted"]
         ELSE /\ UNCHANGED records
              /\ cleanupLog' = [cleanupLog EXCEPT ![i] = "deleteError"]
    /\ lockHolder' = None
    /\ Select(i)
    /\ ret' = NoRet
    /\ UNCHANGED <<now, nextId, disabled, cancelled, nextTick, refused, carried>>

\* ------------------------------------------------------------ specifications
\* The guard alone: one instance serving Add and Validate, minute by minute.
StoreResults == {"nil", "StoreError"}
LockResults == {"nil", "LockError"}

GuardTime == now < MaxTime /\ AdvanceTime(1)
GuardAdd ==
    nextId <= MaxAttempts /\ \E u \in Users, e \in StoreResults : Add("i1", u, "ip1", e)
GuardValidate == \E u \in Users, e \in StoreResults : Validate("i1", u, e)
GuardConfig == \E b \in BOOLEAN : SetDisabled("i1", b)

InitGuard == Init /\ disabled["i2"] = FALSE
NextGuard == GuardTime \/ GuardAdd \/ GuardValidate \/ GuardConfig
SpecGuard == InitGuard /\ [][NextGuard]_vars

\* The maintenance loops of all instances over one store and one lock; the
\* clock moves one window at a time.
Tick == now < MaxClockSteps * ClockStep /\ AdvanceTime(ClockStep)
AddAttempt ==
    nextId <= MaxSweepAttempts /\
        \E i \in Instances, e \in StoreResults : Add(i, "alice", "ip1", e)
Configure == \E i \in Instances, b \in BOOLEAN : SetDisabled(i, b)
StartRun == \E i \in Instances : Run(i)
CancelRun == \E i \in Instances : Cancel(i)
Lock == \E i \in Instances, e \in LockResults : CleanupLock(i, e)
Sweep == \E i \in Instances, e \in StoreResults : CleanupDelete(i, e)

Next == Tick \/ AddAttempt \/ Configure \/ StartRun \/ CancelRun \/ Lock \/ Sweep
Spec == Init /\ [][Next]_vars

\* The guard in service next to the maintenance loops: instance i1 serves Add
\* and Validate for every username and address while both loops tick, lock
\* and sweep.
Sources == {<<"alice", "ip1">>, <<"alice", "ip2">>, <<"bob", "ip1">>}

ServeAdd ==
    nextId <= MaxSweepAttempts /\
        \E src \in Sources, e \in StoreResults : Add("i1", src[1], src[2], e)
ServeValidate == \E u \in Users : Validate("i1", u, "nil")

NextService == Tick \/ ServeAdd \/ ServeValidate \/ StartRun \/ Lock \/ Sweep
SpecService == InitGuard /\ [][NextService]_vars

\* One instance's loop and guard minute by minute, so that a sweep meets rows
\* of every age.
MinuteTick == now < TickInterval + MaxClockSteps /\ AdvanceTime(1)
RetainAdd == nextId <= MaxSweepAttempts /\ Add("i1", "alice", "ip1", "nil")
RetainValidate == Validate("i1", "alice", "nil")
RetainRun == Run("i1")
RetainLock == \E e \in LockResults : CleanupLock("i1", e)
RetainSweep == \E e \in StoreResults : CleanupDelete("i1", e)

NextRetention ==
    MinuteTick \/ RetainAdd \/ RetainValidate \/ RetainRun \/ RetainLock \/ RetainSweep
SpecRetention == InitGuard /\ [][NextRetention]_vars

\* The guard serving attempts of two usernames from two addresses, before and
\* after one window has passed.
SourcesTick == now < ClockStep /\ AdvanceTime(ClockStep)
SourcesAdd ==
    nextId <= MaxAttempts + 1 /\ \E src \in Sources : Add("i1", src[1], src[2], "nil")
SourcesValidate == \E u \in Users : Validate("i1", u, "nil")

NextSources == SourcesTick \/ SourcesAdd \/ SourcesValidate
SpecSources == InitGuard /\ [][NextSources]_vars

\* The guard serving one username past the ceiling, minute by minute.
LockoutAdd == nextId <= MaxAttempts + 1 /\ Add("i1", "alice", "ip1", "nil")
LockoutValidate == Validate("i1", "alice", "nil")

NextLockout == GuardTime \/ LockoutAdd \/ LockoutValidate
SpecLockout == InitGuard /\ [][NextLockout]_vars

\* The loops running for ever.  Time is kept relative so that the clock never
\* stops: once it would pass LiveHorizon, the clock, the tickers of the running
\* loops and the times of the rows all move back by the step just made.  A row
\* that reaches the floor is already older than RetentionAge and stays so;
\* every comparison the service makes keeps its outcome.
LiveHorizon == MaxClockSteps * ClockStep
Rebase(t) == IF t > LiveHorizon THEN ClockStep ELSE 0
Floor(t) == IF t < 0 THEN 0 ELSE t

LiveTick ==
    LET t == now + ClockStep
        s == Rebase(t)
    IN  /\ now' = t - s
        /\ pc' = [i \in Instances |->
                    IF TickDue(i, t) /\ pc[i] = "AwaitingTick" THEN "AcquiringLock" ELSE pc[i]]
        /\ tickPending' = [i \in Instances |->
                    IF TickDue(i, t) /\ pc[i] # "AwaitingTick" THEN TRUE ELSE tickPending[i]]
        /\ nextTick' = [i \in Instances |->
                    IF pc[i] \in Running
                      THEN (IF TickDue(i, t) THEN nextTick[i] + TickInterval
                            ELSE nextTick[i]) - s
                      ELSE nextTick[i]]
        /\ records' = {[r EXCEPT !.created = Floor(r.created - s)] : r \in records}
        /\ ret' = NoRet
        /\ UNCHANGED <<nextId, disabled, cancelled, runRet, lockHolder, cleanupLog,
                       refused, carried>>

LiveAdd == nextId <= MaxSweepAttempts /\ Add("i1", "alice", "ip1", "nil")

NextLive == LiveTick \/ LiveAdd \/ StartRun \/ Lock \/ Sweep

\* Time passes and every instance starts its loop; a lock acquisition and a
\* delete that are tried again and again do not fail every time.
LiveFairness ==
    /\ WF_vars(LiveTick)
    /\ \A i \in Instances :
          /\ WF_vars(Run(i))
          /\ SF_vars(CleanupLock(i, "nil"))
          /\ SF_vars(CleanupDelete(i, "nil"))

SpecLive == InitGuard /\ [][NextLive]_vars /\ LiveFairness

\* ------------------------------------------------------------------- claims
\* The call that just returned was op, served with protection enabled.
Served(op) == ret.op = op /\ ~disabled[ret.instance]

\* The attempts of username less than a window old.
InWindow(username) ==
    {r \in records : r.username = username /\ now - r.created < loginAttemptsWindow}

\* The attempts of username a window old or older.
Expired(username) ==
    {r \in records : r.username = username /\ now - r.created >= loginAttemptsWindow}

\* C1: with protection enabled and the store succeeding, Validate returns
\* allowed exactly when fewer than 5 attempts of the username lie inside the
\* trailing 5-minute window; 5 or more return not allowed.
ValidateAllowsBelowCeiling ==
    (Served("Validate") /\ ret.storeErr = "nil") =>
        /\ ret.err = "nil"
        /\ ret.allowed <=> Cardinality(InWindow(ret.username)) < 5

ValidateRefusedAtFive ==
    /\ Served("Validate") /\ ret.storeErr = "nil"
    /\ ~ret.allowed
    /\ Cardinality(InWindow(ret.username)) = 5

\* C2: with protection disabled Add writes nothing to the store and succeeds,
\* and Validate returns allowed, whatever attempts exist; neither calls the store.
DisabledTouchesNoStore ==
    [][(ret'.op # "none" /\ disabled[ret'.instance]) =>
          /\ records' = records /\ nextId' = nextId
          /\ ret'.calls = <<>>
          /\ ret'.err = "nil"
          /\ ret'.op = "Validate" => ret'.allowed]_vars

DisabledValidateOverCeiling ==
    /\ ret.op = "Validate" /\ disabled[ret.instance]
    /\ ret.allowed
    /\ Cardinality(InWindow(ret.username)) >= 5

\* C3: a username that Validate refused is allowed again once no attempt of it
\* is 5 minutes old or younger: 5 attempts in one minute are refused, and
\* allowed 6 minutes later.
LockoutEndsWhenAttemptsAge ==
    (/\ Served("Validate") /\ ret.storeErr = "nil"
     /\ ret.username \in refused
     /\ \A r \in records : r.username = ret.username => now - r.created > loginAttemptsWindow)
        => ret.allowed

RefusedThenAllowedSixMinutesLater ==
    /\ Served("Validate") /\ ret.storeErr = "nil"
    /\ ret.username \in refused
    /\ ret.allowed
    /\ Cardinality({r \in records : r.username = ret.username /\ now - r.created = 6}) = 5

StoreErrorPropagates ==
    [][(ret'.op # "none" /\ ret'.storeErr # "nil") =>
          /\ ret'.err = ret'.storeErr
          /\ ret'.op = "Validate" => ~ret'.allowed
          /\ Len(ret'.calls) = 1
          /\ records' = records /\ nextId' = nextId]_vars

StoreErrorReturned ==
    /\ Served("Validate") /\ ret.storeErr = "StoreError" /\ ret.err = "StoreError"
    /\ ~ret.allowed
    /\ Cardinality(InWindow(ret.username)) < maxInvalidLoginAttempts
    /\ records # {}

\* The last cleanup of instance i ran the delete.
Swept(i) == cleanupLog[i] \in {"deleted", "deleteError"}

\* Instances i and j have both finished the cleanup of a tick they share.
SharedTickDone(i, j) ==
    /\ i # j
    /\ pc[i] = "AwaitingTick" /\ pc[j] = "AwaitingTick"
    /\ ~tickPending[i] /\ ~tickPending[j]
    /\ nextTick[i] = nextTick[j]
    /\ cleanupLog[i] # "none" /\ cleanupLog[j] # "none"

\* C5 as claimed: of two instances that tick together exactly one runs the
\* delete sweep for the tick, and the other logs nothing and did not acquire.
ExactlyOneSweepsPerTick ==
    \A i, j \in Instances :
        SharedTickDone(i, j) =>
            \/ Swept(i) /\ cleanupLog[j] = "notAcquired"
            \/ Swept(j) /\ cleanupLog[i] = "notAcquired"

\* C5 as amended: at no time are two instances inside the delete sweep, and an
\* instance whose tick finds the lock held elsewhere deletes nothing, logs no
\* error and goes back to the select of its loop.
OneSweeperAndQuietSkip ==
    [][/\ \A i, j \in Instances : (pc[i] = "Cleaning" /\ pc[j] = "Cleaning") => i = j
       /\ \A i \in Instances :
            (/\ pc[i] = "AcquiringLock" /\ ~LockFree(lockHolder)
             /\ (pc'[i] # pc[i] \/ cleanupLog'[i] # cleanupLog[i])
             /\ cleanupLog'[i] # "lockError")
                => /\ cleanupLog'[i] = "notAcquired"
                   /\ records' = records
                   /\ lockHolder' = lockHolder
                   /\ pc'[i] \in {"AwaitingTick", "AcquiringLock", "Cancelled"}
                   /\ pc'[i] = "Cancelled" => cancelled[i]
                   /\ pc'[i] = "AcquiringLock" => tickPending[i]]_vars

SkippedWhileOtherSweeps ==
    \E i, j \in Instances :
        /\ i # j
        /\ pc[i] = "Cleaning" /\ lockHolder = i
        /\ pc[j] = "AwaitingTick" /\ cleanupLog[j] = "notAcquired"
        /\ nextTick[i] = nextTick[j]

\* C6: a cancellation that arrives while Run waits in its select ends Run
\* there: it returns ctx.Err(), and the instance takes no lock and deletes
\* nothing from then on.
CancelWhileWaitingExits ==
    [][\A i \in Instances :
        /\ (pc[i] = "AwaitingTick" /\ ~cancelled[i] /\ cancelled'[i]) =>
              /\ pc'[i] = "Cancelled" /\ runRet'[i] = "ctx.Err"
              /\ records' = records /\ lockHolder' = lockHolder
        /\ pc[i] = "Cancelled" =>
              /\ pc'[i] = "Cancelled" /\ runRet'[i] = "ctx.Err"
              /\ lockHolder' # i /\ cleanupLog'[i] = cleanupLog[i]]_vars

CancelledBeforeFirstTick ==
    \E i \in Instances :
        /\ pc[i] = "Cancelled" /\ runRet[i] = "ctx.Err"
        /\ cleanupLog[i] = "none"
        /\ now >= nextTick[i]

\* C7: no store error, lock error or held lock ends the loop: after each the
\* instance is back in its loop; a Run that has returned from its loop was
\* cancelled and returned ctx.Err().
LoopEndsOnlyOnCancel ==
    \A i \in Instances :
        /\ (cleanupLog[i] \in {"lockError", "deleteError", "notAcquired"} /\ ~cancelled[i])
              => pc[i] \in Running
        /\ pc[i] \notin Running \cup {"Idle"} =>
              \/ pc[i] = "Cancelled" /\ cancelled[i] /\ runRet[i] = "ctx.Err"
              \/ pc[i] = "Returned" /\ runRet[i] = "nil" /\ cleanupLog[i] = "none"
        /\ pc[i] \in Running \cup {"Idle"} => runRet[i] = "none"

LoopSurvivesErrors ==
    \E i, j \in Instances :
        /\ cleanupLog[i] = "deleteError" /\ pc[i] = "AwaitingTick"
        /\ cleanupLog[j] = "lockError" /\ pc[j] = "AwaitingTick"

\* C9: a Run started with protection disabled returns nil at once and that
\* instance never takes the lock or deletes; a loop already running does not
\* return because protection is disabled later.
DisabledRunReturnsAtOnce ==
    [][\A i \in Instances :
        /\ (pc[i] = "Idle" /\ pc'[i] # "Idle") =>
              IF disabled[i]
                THEN /\ pc'[i] = "Returned" /\ runRet'[i] = "nil"
                     /\ lockHolder' = lockHolder /\ records' = records
                ELSE pc'[i] \in Running
        /\ pc[i] = "Returned" =>
              /\ pc'[i] = "Returned" /\ lockHolder' # i /\ cleanupLog'[i] = "none"
        /\ (pc[i] \in Running /\ disabled'[i] /\ ~cancelled'[i]) => pc'[i] \in Running]_vars

ReturnedWhileDisabledLoopSweeps ==
    \E i, j \in Instances :
        /\ pc[i] = "Returned" /\ runRet[i] = "nil"
        /\ pc[j] = "Cleaning" /\ disabled[j] /\ lockHolder = j

\* C10: a successful sweep at time t removes exactly the rows created before
\* t minus 10 minutes and keeps every other row; the same delete run again on
\* the result removes nothing.
SweepRemovesExactlyOld ==
    [][\A i \in Instances :
        (pc[i] = "Cleaning" /\ pc'[i] # "Cleaning" /\ cleanupLog'[i] = "deleted") =>
            /\ records' = {r \in records : r.created >= now - 10}
            /\ DeleteOldLoginAttempts(records', now - 10) = records']_vars

SweepRemovedOldKeptBoundary ==
    \E i \in Instances :
        /\ cleanupLog[i] = "deleted"
        /\ Cardinality(records) < nextId - 1
        /\ \E r \in records : r.created = now - 10

\* C11: switching protection off or on, and every call served while it is
\* off, leaves the attempt rows as they are; once protection is on again
\* Validate counts the rows still inside the window as it always does.
DisablingKeepsRecords ==
    [][/\ (disabled' # disabled \/ (ret'.op # "none" /\ disabled[ret'.instance])) =>
            (records' = records /\ nextId' = nextId)
       /\ (ret'.op = "Validate" /\ ~disabled[ret'.instance] /\ ret'.storeErr = "nil") =>
            (ret'.allowed <=>
                Cardinality({r \in records' : r.username = ret'.username
                                /\ now' - r.created < 5}) < 5)]_vars

RefusedAgainAfterReenabling ==
    /\ Served("Validate") /\ ret.storeErr = "nil"
    /\ ret.username \in carried
    /\ ~ret.allowed
    /\ nextId = 6
    /\ Cardinality(InWindow(ret.username)) = 5

\* C12: rows are removed only by the step of an instance that holds the lock
\* and is inside the sweep; the lock has one holder, so no two instances sweep
\* at once; Add and Validate remove no row.
DeleteOnlyUnderLock ==
    [][/\ \A i \in Instances : pc[i] = "Cleaning" => lockHolder = i
       /\ (\E r \in records : r \notin records') =>
            /\ ret'.op = "none"
            /\ \E i \in Instances :
                  lockHolder = i /\ pc[i] = "Cleaning" /\ pc'[i] # "Cleaning"]_vars

SweptWhileOtherLockedOut ==
    \E i, j \in Instances :
        /\ i # j
        /\ cleanupLog[i] = "deleted" /\ Cardinality(records) < nextId - 1
        /\ cleanupLog[j] = "notAcquired"
        /\ lockHolder = None

CallsNeverTouchLock ==
    [][/\ ret'.op # "none" =>
             (lockHolder' = lockHolder /\ pc' = pc /\ cleanupLog' = cleanupLog)
       /\ lockHolder # None =>
             \A i \in Instances :
                 /\ ENABLED Validate(i, "alice", "nil")
                 /\ ENABLED Add(i, "alice", "ip1", "nil")]_vars

AddedWhileOwnInstanceSweeps ==
    /\ Served("Add") /\ ret.err = "nil"
    /\ lockHolder = ret.instance /\ pc[ret.instance] = "Cleaning"
    /\ \E r \in records : r.id = nextId - 1 /\ r.created = now

\* C15: a row that stays in the store keeps its username, address and time;
\* the set of rows changes only when an enabled Add succeeds, which adds
\* exactly one row with the given username and address stamped with the
\* current time, or when a sweep under the lock deletes; Validate leaves the
\* set as it is.
RecordsOnlyCreatedOrDeleted ==
    [][/\ \A r \in records' : (\E q \in records : q.id = r.id) => r \in records
       /\ ret'.op = "Validate" => records' = records
       /\ (ret'.op = "Add" /\ ~disabled[ret'.instance] /\ ret'.err = "nil") =>
             /\ Cardinality(records') = Cardinality(records) + 1
             /\ \E r \in records' :
                   /\ records' = records \cup {r}
                   /\ r.username = ret'.username /\ r.ipAddress = ret'.ipAddress
                   /\ r.created = now /\ now' = now
       /\ (records' # records) =>
             \/ ret'.op = "Add" /\ ~disabled[ret'.instance] /\ ret'.err = "nil"
             \/ /\ ret'.op = "none"
                /\ records' \subseteq records
                /\ \E i \in Instances : pc[i] = "Cleaning" /\ cleanupLog'[i] = "deleted"]_vars

SecondAttemptKeepsFirstRow ==
    /\ Served("Add") /\ ret.err = "nil"
    /\ \E r, q \in records :
          /\ r.id = nextId - 1 /\ r.created = now
          /\ r.username = ret.username /\ r.ipAddress = ret.ipAddress
          /\ q.username = r.username /\ q.ipAddress = r.ipAddress
          /\ q.created < now

\* C18: a sweep removes no row younger than five minutes, so for every
\* username the number of rows Validate counts, now and at every later time,
\* is the same after the sweep as before it.
SweepKeepsWindow ==
    [][(ret'.op = "none" /\ records' # records) =>
         /\ \A r \in records \ records' : now - r.created >= 5
         /\ \A u \in Users, t \in now .. (now + loginAttemptsWindow) :
               Cardinality({r \in records' : r.username = u /\ t - r.created < 5}) =
               Cardinality({r \in records : r.username = u /\ t - r.created < 5})]_vars

ValidatedAfterSweepKeptRecent ==
    /\ Served("Validate") /\ ret.storeErr = "nil" /\ ret.allowed
    /\ \E i \in Instances : cleanupLog[i] = "deleted"
    /\ Cardinality(records) < nextId - 1
    /\ InWindow(ret.username) # {}

\* The rows of username from address a that are less than five minutes old.
FromAddress(username, a) ==
    {r \in records : r.username = username /\ r.ipAddress = a /\ now - r.created < 5}

RECURSIVE AddressTotal(_, _)
AddressTotal(username, as) ==
    IF as = {} THEN 0
    ELSE LET a == CHOOSE x \in as : TRUE
         IN  Cardinality(FromAddress(username, a)) + AddressTotal(username, as \ {a})

\* C16: Validate refuses a username exactly when its recent rows, added up
\* over all source addresses, are 5 or more; the rows of other usernames play
\* no part in the result.
CountIsPerUsername ==
    (Served("Validate") /\ ret.storeErr = "nil") =>
        (ret.allowed <=> AddressTotal(ret.username, IPs) < 5)

RefusedAcrossAddresses ==
    /\ Served("Validate") /\ ret.storeErr = "nil" /\ ~ret.allowed
    /\ \A a \in IPs : Cardinality(FromAddress(ret.username, a)) \in 1 .. 4
    /\ \E r \in records : r.username # ret.username /\ now - r.created < 5

\* The time of the fifth most recent row of username, which has 5 rows or more.
FifthMostRecent(username) ==
    LET mine == {r \in records : r.username = username}
    IN  CHOOSE t \in {r.created : r \in mine} :
            /\ Cardinality({r \in mine : r.created > t}) < 5
            /\ Cardinality({r \in mine : r.created >= t}) >= 5

\* C19: an enabled Add whose store call succeeds adds its row whatever the
\* number of rows the username already has, so a username can have more than
\* 5 rows inside the window; Validate allows a username exactly when it has
\* fewer than 5 rows or its fifth most recent row is 5 minutes old or older.
AddIgnoresCount ==
    /\ (Served("Add") /\ ret.err = "nil") =>
          /\ Cardinality(records) = nextId - 1
          /\ \E r \in records :
                r.id = nextId - 1 /\ r.username = ret.username /\ r.created = now
    /\ (Served("Validate") /\ ret.storeErr = "nil") =>
          (ret.allowed <=>
              \/ Cardinality({r \in records : r.username = ret.username}) < 5
              \/ now - FifthMostRecent(ret.username) >= 5)

AllowedFiveMinutesAfterFifth ==
    /\ Served("Validate") /\ ret.storeErr = "nil" /\ ret.allowed
    /\ ret.username \in refused
    /\ Cardinality({r \in records : r.username = ret.username}) = 6
    /\ now - FifthMostRecent(ret.username) = 5
    /\ Cardinality(InWindow(ret.username)) = 4

\* C17: with protection enabled, no cancellation, time passing and lock and
\* store not failing for ever, a row that is more than 10 minutes old is
\* eventually deleted.
OldRecordsEventuallySwept ==
    \A k \in 1 .. MaxSweepAttempts :
        (\E r \in records : r.id = k /\ now - r.created > 10)
            ~> ~(\E r \in records : r.id = k)

OldRowSurvivedFailedSweep ==
    \E i \in Instances :
        /\ cleanupLog[i] = "deleteError" /\ pc[i] = "AwaitingTick"
        /\ \E r \in records : now - r.created > 10

====
